---- MODULE Spec2Model ----
(***************************************************************************)
(* A model of dev.py (DEV.to Analytics Pro): the record store filled by    *)
(* one fetch, the date filter, the engagement metric, the aggregators, the *)
(* two exports and the dispatch of main().                                 *)
(*                                                                         *)
(* Time is counted in hours: an instant is the number of hours since       *)
(* 1970-01-01T00:00 UTC, a UTC offset is a number of hours.                *)
(***************************************************************************)
EXTENDS Integers, Sequences, FiniteSets, TLC

VARIABLES
    pc,        \* position of the run: where main() (or the called method) is
    args,      \* the parsed command line (argparse namespace)
    status,    \* status code of the Source API response, 0 before the fetch
    response,  \* the JSON array of the response, as the fetch received it
    articles,  \* self.articles
    fetches,   \* number of requests.get calls made so far
    exitcode,  \* -1 while running, 1 after exit(1), 0 at the normal end
    now,       \* the current UTC time, in hours
    calls,     \* number of aggregator and export methods called so far
    out,       \* what the last method reported
    ov,        \* what overview() printed in this run
    jsonfile   \* the text json.dump wrote, field by field

vars == <<pc, args, status, response, articles, fetches, exitcode, now, calls, out, ov, jsonfile>>

\* An optional int (--days): None is the empty tuple, the int n is <<n>>
None == <<>>

Some(n) == <<n>>

Value(opt) == opt[1]

----------------------------------------------------------------------------
(* Generic helpers *)

Min(a, b) == IF a <= b THEN a ELSE b

Max(a, b) == IF a >= b THEN a ELSE b

RECURSIVE SumSeq(_)
SumSeq(s) == IF s = <<>> THEN 0 ELSE Head(s) + SumSeq(Tail(s))

\* s[:n] of Python, for any integer n
Slice(s, n) ==
    LET k == IF n >= 0 THEN Min(n, Len(s)) ELSE Max(Len(s) + n, 0)
    IN  SubSeq(s, 1, k)

\* a slip: s[:n] for s[-n:]
FirstN(s, n) == SubSeq(s, 1, Min(n, Len(s)))

\* s[-n:] of Python, for n > 0
LastN(s, n) == SubSeq(s, Max(Len(s) - n, 0) + 1, Len(s))

\* all sequences over S of length at most n
SeqsUpTo(S, n) == UNION {[1..k -> S] : k \in 0..n}

----------------------------------------------------------------------------
(* Article records: a record is a function from field names to values; a   *)
(* field missing from the payload is a name outside its DOMAIN.            *)

\* article.get(key, default)
Get(a, key, default) == IF key \in DOMAIN a THEN a[key] ELSE default

\* the record a without the field key
Without(a, key) == [k \in (DOMAIN a) \ {key} |-> a[k]]

\* the address of the article titled title
Url(title) == <<"https://dev.to", title>>

\* a record with the fields the code requires and none of the optional ones
Bare(title, published_at) ==
    [title |-> title, url |-> Url(title), published_at |-> published_at]

Article(title, published_at, views, reactions, comments, reading_time, tags) ==
    [title |-> title, url |-> Url(title), published_at |-> published_at,
     page_views_count |-> views, public_reactions_count |-> reactions,
     comments_count |-> comments, reading_time_minutes |-> reading_time,
     tag_list |-> tags]

page_views(a) == Get(a, "page_views_count", 0)

public_reactions(a) == Get(a, "public_reactions_count", 0)

comments_count(a) == Get(a, "comments_count", 0)

----------------------------------------------------------------------------
(* Timestamps.  published_at is an ISO-8601 text; it is modelled by its    *)
(* fields: year, month, day, hour and the suffix, "Z" or an offset text.   *)

Stamp(y, mo, d, h, tz) == [y |-> y, mo |-> mo, d |-> d, h |-> h, tz |-> tz]

\* str.replace('Z', '+00:00')
replace_Z(ts) == IF ts.tz = "Z" THEN [ts EXCEPT !.tz = "+00:00"] ELSE ts

\* the offset, in hours, that fromisoformat reads from the suffix
parse_offset(tz) ==
    CASE tz = "+00:00" -> 0
      [] tz = "+05:00" -> 5
      [] tz = "-08:00" -> -8

\* days from 1970-01-01 to the civil date y-mo-d (proleptic Gregorian)
days_from_civil(y, mo, d) ==
    LET yy  == IF mo <= 2 THEN y - 1 ELSE y
        era == yy \div 400
        yoe == yy - era * 400
        mp  == IF mo > 2 THEN mo - 3 ELSE mo + 9
        doy == (153 * mp + 2) \div 5 + d - 1
        doe == yoe * 365 + yoe \div 4 - yoe \div 100 + doy
    IN  era * 146097 + doe - 719468

\* datetime.fromisoformat: an aware datetime, the wall-clock fields and the offset
fromisoformat(ts) ==
    [y |-> ts.y, mo |-> ts.mo, d |-> ts.d, h |-> ts.h, utcoffset |-> parse_offset(ts.tz)]

\* the UTC instant of an aware datetime, which is what >= compares
Instant(dt) == (days_from_civil(dt.y, dt.mo, dt.d) * 24 + dt.h) - dt.utcoffset

HoursPerDay == 24

\* timedelta(days=days)
timedelta(days) == days * HoursPerDay

\* a slip: > for >=
in_window_strict(article, cutoff) ==
    Instant(fromisoformat(replace_Z(article.published_at))) > cutoff

\* the test of line 50
in_window(article, cutoff) ==
    Instant(fromisoformat(replace_Z(article.published_at))) >= cutoff

RECURSIVE filter_loop(_, _)
filter_loop(arts, cutoff) ==
    IF arts = <<>> THEN <<>>
    ELSE IF in_window(Head(arts), cutoff)
         THEN <<Head(arts)>> \o filter_loop(Tail(arts), cutoff)
         ELSE filter_loop(Tail(arts), cutoff)

\* "not days": None and 0 are falsy
falsy(days) == days = None \/ Value(days) = 0

\* filter_by_date(days) on the store arts at time t
filter_by_date(arts, days, t) ==
    IF falsy(days) THEN arts
    ELSE filter_loop(arts, t - timedelta(Value(days)))

----------------------------------------------------------------------------
(* Python floats (IEEE-754 binary64, round to nearest, ties to even).  A   *)
(* non-negative float is m * 2^e with 2^52 <= m < 2^53, or zero.  The      *)
(* significand does not fit the 32-bit integers of TLC, so naturals        *)
(* are kept as little-endian sequences of 15-bit limbs.  Every operation   *)
(* computes the exact result and rounds it once, as the hardware does.     *)
(* Subnormals, infinities and NaN are out of reach of the counts modelled. *)

LimbBits == 15

Base == 2 ^ LimbBits

Precision == 53

RECURSIVE Limbs(_)
Limbs(n) == IF n = 0 THEN <<>> ELSE <<n % Base>> \o Limbs(n \div Base)

RECURSIVE Norm(_)
Norm(s) == IF s = <<>> THEN <<>>
           ELSE IF s[Len(s)] = 0 THEN Norm(SubSeq(s, 1, Len(s) - 1)) ELSE s

RECURSIVE MulSmallC(_, _, _)
MulSmallC(s, c, carry) ==
    IF s = <<>> THEN Limbs(carry)
    ELSE LET p == Head(s) * c + carry
         IN  <<p % Base>> \o MulSmallC(Tail(s), c, p \div Base)

\* s * c for 0 <= c < Base
MulSmall(s, c) == Norm(MulSmallC(s, c, 0))

RECURSIVE AddC(_, _, _)
AddC(s, t, carry) ==
    IF s = <<>> /\ t = <<>> THEN Limbs(carry)
    ELSE LET a == IF s = <<>> THEN 0 ELSE Head(s)
             b == IF t = <<>> THEN 0 ELSE Head(t)
             p == a + b + carry
         IN  <<p % Base>> \o AddC(IF s = <<>> THEN s ELSE Tail(s),
                                  IF t = <<>> THEN t ELSE Tail(t), p \div Base)

AddL(s, t) == Norm(AddC(s, t, 0))

RECURSIVE DivSmallR(_, _)
DivSmallR(s, q) ==
    IF s = <<>> THEN [q |-> <<>>, r |-> 0]
    ELSE LET rest == DivSmallR(Tail(s), q)
             cur  == rest.r * Base + Head(s)
         IN  [q |-> <<cur \div q>> \o rest.q, r |-> cur % q]

\* quotient and remainder of s by q, 0 < q < Base
DivSmall(s, q) == LET d == DivSmallR(s, q) IN [q |-> Norm(d.q), r |-> d.r]

RECURSIVE BitLenSmall(_)
BitLenSmall(n) == IF n = 0 THEN 0 ELSE 1 + BitLenSmall(n \div 2)

BitLen(s) == IF s = <<>> THEN 0
             ELSE LimbBits * (Len(s) - 1) + BitLenSmall(s[Len(s)])

ShiftLeft(s, k) ==
    IF s = <<>> THEN <<>>
    ELSE [i \in 1..(k \div LimbBits) |-> 0] \o MulSmall(s, 2 ^ (k % LimbBits))

\* s shifted right by k bits, and whether a one was shifted out
ShiftRight(s, k) ==
    LET a    == Min(k \div LimbBits, Len(s))
        d    == DivSmall(SubSeq(s, a + 1, Len(s)), 2 ^ (k % LimbBits))
    IN  [n |-> d.q, sticky |-> d.r # 0 \/ \E i \in 1..a : s[i] # 0]

\* -1, 0, 1 as s <, =, > t
RECURSIVE CmpL(_, _)
CmpL(s, t) ==
    IF Len(s) # Len(t) THEN (IF Len(s) < Len(t) THEN -1 ELSE 1)
    ELSE IF s = <<>> THEN 0
    ELSE IF s[Len(s)] # t[Len(t)] THEN (IF s[Len(s)] < t[Len(t)] THEN -1 ELSE 1)
    ELSE CmpL(SubSeq(s, 1, Len(s) - 1), SubSeq(t, 1, Len(t) - 1))

FZero == [m |-> <<>>, e |-> 0]

\* the float nearest to (n / q) * 2^e, ties to even; n limbs, 0 < q < Base
Round(n, q, e) ==
    IF n = <<>> THEN FZero
    ELSE LET up    == LimbBits * 6
             d     == DivSmall(ShiftLeft(n, up), q)
             drop  == BitLen(d.q) - Precision
             sh    == ShiftRight(d.q, drop - 1)
             h     == DivSmall(sh.n, 2)
             guard == h.r = 1
             odd   == h.q[1] % 2 = 1
             m     == IF guard /\ (sh.sticky \/ d.r # 0 \/ odd)
                      THEN AddL(h.q, <<1>>) ELSE h.q
         IN  IF BitLen(m) > Precision
             THEN [m |-> DivSmall(m, 2).q, e |-> e - up + drop + 1]
             ELSE [m |-> m, e |-> e - up + drop]

\* float(n) for an int n >= 0
float(n) == Round(Limbs(n), 1, 0)

\* a / b of two ints, b > 0 (true division)
int_truediv(a, b) == Round(Limbs(a), b, 0)

\* x * c of a float and an int 0 <= c < Base
float_mul(x, c) == Round(MulSmall(x.m, c), 1, x.e)

\* x / c of a float and an int 0 < c < Base
float_div(x, c) == Round(x.m, c, x.e)

\* x * 0.5
float_half(x) == IF x.m = <<>> THEN FZero ELSE [x EXCEPT !.e = x.e - 1]

\* x + y
float_add(x, y) ==
    IF x.m = <<>> THEN y
    ELSE IF y.m = <<>> THEN x
    ELSE LET e == Min(x.e, y.e)
         IN  Round(AddL(ShiftLeft(x.m, x.e - e), ShiftLeft(y.m, y.e - e)), 1, e)

\* x < y
float_lt(x, y) ==
    IF y.m = <<>> THEN FALSE
    ELSE IF x.m = <<>> THEN TRUE
    ELSE IF x.e # y.e THEN x.e < y.e
    ELSE CmpL(x.m, y.m) < 0

\* sum(xs) of floats: 0 + xs[1] + xs[2] + ..., each addition rounded.  This
\* is the sum of CPython up to 3.11; from 3.12 on sum() also carries a
\* compensation term for the rounding errors, which is not modelled.
RECURSIVE float_sum(_, _)
float_sum(acc, xs) ==
    IF xs = <<>> THEN acc ELSE float_sum(float_add(acc, Head(xs)), Tail(xs))

----------------------------------------------------------------------------
(* Lists live in a heap: a method that binds a name to a list holds a      *)
(* reference to it, so a method that changed the list filter_by_date       *)
(* returned for an absent window would change the store itself.            *)

SELF == "self.articles"

Heap(store) == SELF :> store

Bind(h, ref, list) == (ref :> list) @@ h

\* filter_by_date as a method: the heap after the call and the reference returned
filter_by_date_m(h, days, t) ==
    IF falsy(days) THEN [heap |-> h, ref |-> SELF]
    ELSE [heap |-> Bind(h, "filtered", filter_by_date(h[SELF], days, t)),
          ref  |-> "filtered"]

----------------------------------------------------------------------------
(* Engagement metric, lines 55-62 *)

calculate_engagement_rate(article) ==
    LET views == page_views(article)
    IN  IF views = 0 THEN FZero
        ELSE float_mul(int_truediv(public_reactions(article) + comments_count(article),
                                   views), 100)

----------------------------------------------------------------------------
(* sorted(list, key=..., reverse=True): each key is computed once, the     *)
(* result is a new list, descending, equal keys in their input order.      *)

sort_key(by, x) ==
    CASE by = "views"      -> page_views(x)
      [] by = "reactions"  -> public_reactions(x)
      [] by = "comments"   -> comments_count(x)
      [] by = "engagement" -> calculate_engagement_rate(x)
      [] by = "tag_views"  -> x.views
      [] by = "month"      -> x.month

key_lt(by, ka, kb) ==
    CASE by = "engagement" -> float_lt(ka, kb)
      [] by = "month"      -> ka[1] < kb[1] \/ (ka[1] = kb[1] /\ ka[2] < kb[2])
      [] OTHER             -> ka < kb

decorate(list, by) == [i \in 1..Len(list) |-> [key |-> sort_key(by, list[i]), item |-> list[i]]]

undecorate(list) == [i \in 1..Len(list) |-> list[i].item]

\* a slip: x goes before the first element whose key is not greater than its
\* own, which puts it before its equals
RECURSIVE insert_desc_unstable(_, _, _)
insert_desc_unstable(s, x, by) ==
    IF s = <<>> THEN <<x>>
    ELSE IF ~key_lt(by, x.key, Head(s).key) THEN <<x>> \o s
    ELSE <<Head(s)>> \o insert_desc_unstable(Tail(s), x, by)

\* x goes before the first element whose key is smaller than its own
RECURSIVE insert_desc(_, _, _)
insert_desc(s, x, by) ==
    IF s = <<>> THEN <<x>>
    ELSE IF key_lt(by, Head(s).key, x.key) THEN <<x>> \o s
    ELSE <<Head(s)>> \o insert_desc(Tail(s), x, by)

\* x goes before the first element whose key is greater than its own
RECURSIVE insert_asc(_, _, _)
insert_asc(s, x, by) ==
    IF s = <<>> THEN <<x>>
    ELSE IF key_lt(by, x.key, Head(s).key) THEN <<x>> \o s
    ELSE <<Head(s)>> \o insert_asc(Tail(s), x, by)

RECURSIVE sort_into(_, _, _, _)
sort_into(acc, s, by, reverse) ==
    IF s = <<>> THEN acc
    ELSE sort_into(IF reverse THEN insert_desc(acc, Head(s), by)
                   ELSE insert_asc(acc, Head(s), by), Tail(s), by, reverse)

sorted(list, by, reverse) == undecorate(sort_into(<<>>, decorate(list, by), by, reverse))

\* a slip: list.sort(...), which sorts the list in place
list_sort_m(h, ref, by) == [heap |-> Bind(h, ref, sorted(h[ref], by, TRUE)), ref |-> ref]

\* sorted(...) as a call: the result is bound to a new list
sorted_m(h, ref, by) == [heap |-> Bind(h, "sorted", sorted(h[ref], by, TRUE)), ref |-> "sorted"]

----------------------------------------------------------------------------
(* Top-N ranking, lines 94-105 *)

top_articles(h, n, sort_by, days, t) ==
    LET f == filter_by_date_m(h, days, t)
        s == sorted_m(f.heap, f.ref, sort_by)
    IN  [heap |-> s.heap, report |-> Slice(s.heap[s.ref], n)]

----------------------------------------------------------------------------
(* Tag aggregator, lines 124-151.  tag_stats is a dict: its items are kept *)
(* in the order the keys were first inserted.                              *)

TagEntry(tag) == [tag |-> tag, count |-> 0, views |-> 0, reactions |-> 0, comments |-> 0]

\* index of the entry of tag in stats, 0 if there is none
tag_index(stats, tag) ==
    IF \E i \in 1..Len(stats) : stats[i].tag = tag
    THEN CHOOSE i \in 1..Len(stats) : stats[i].tag = tag
    ELSE 0

\* a slip: = for += on the views
tag_add_assign(stats, tag, article) ==
    LET st == IF tag_index(stats, tag) = 0 THEN Append(stats, TagEntry(tag)) ELSE stats
        i  == tag_index(st, tag)
    IN  [st EXCEPT ![i] = [tag       |-> tag,
                           count     |-> @.count + 1,
                           views     |-> page_views(article),
                           reactions |-> @.reactions + public_reactions(article),
                           comments  |-> @.comments + comments_count(article)]]

\* lines 141-144 for one tag of one article
tag_add(stats, tag, article) ==
    LET st == IF tag_index(stats, tag) = 0 THEN Append(stats, TagEntry(tag)) ELSE stats
        i  == tag_index(st, tag)
    IN  [st EXCEPT ![i] = [tag       |-> tag,
                           count     |-> @.count + 1,
                           views     |-> @.views + page_views(article),
                           reactions |-> @.reactions + public_reactions(article),
                           comments  |-> @.comments + comments_count(article)]]

RECURSIVE tags_loop(_, _, _)
tags_loop(stats, tags, article) ==
    IF tags = <<>> THEN stats
    ELSE tags_loop(tag_add(stats, Head(tags), article), Tail(tags), article)

RECURSIVE tag_stats_loop(_, _)
tag_stats_loop(stats, list) ==
    IF list = <<>> THEN stats
    ELSE tag_stats_loop(tags_loop(stats, Get(Head(list), "tag_list", <<>>), Head(list)),
                        Tail(list))

tag_analysis(h, days, t) ==
    LET f == filter_by_date_m(h, days, t)
    IN  [heap |-> f.heap,
         report |-> sorted(tag_stats_loop(<<>>, f.heap[f.ref]), "tag_views", TRUE)]

----------------------------------------------------------------------------
(* Reading-time buckets, lines 162-181 *)

time_ranges == << <<0, 3>>, <<4, 5>>, <<6, 10>>, <<11, 15>>, <<16, 999>> >>

\* index of the first range containing reading_time, 0 if none does
first_range(reading_time) ==
    IF \E i \in 1..Len(time_ranges) :
           time_ranges[i][1] <= reading_time /\ reading_time <= time_ranges[i][2]
    THEN CHOOSE i \in 1..Len(time_ranges) :
           /\ time_ranges[i][1] <= reading_time /\ reading_time <= time_ranges[i][2]
           /\ \A j \in 1..(i - 1) :
                  ~(time_ranges[j][1] <= reading_time /\ reading_time <= time_ranges[j][2])
    ELSE 0

RECURSIVE buckets_loop(_, _)
buckets_loop(buckets, list) ==
    IF list = <<>> THEN buckets
    ELSE LET i == first_range(Get(Head(list), "reading_time_minutes", 0))
         IN  buckets_loop(IF i = 0 THEN buckets
                          ELSE [buckets EXCEPT ![i] = Append(@, Head(list))],
                          Tail(list))

reading_time_analysis(h, days, t) ==
    LET f == filter_by_date_m(h, days, t)
    IN  [heap |-> f.heap,
         report |-> buckets_loop(<< <<>>, <<>>, <<>>, <<>>, <<>> >>, f.heap[f.ref])]

----------------------------------------------------------------------------
(* Monthly trend, lines 198-224.  The key is strftime('%Y-%m') of the      *)
(* parsed datetime: its own year and month, kept here as <<year, month>>,  *)
(* which orders as the text does for four-digit years.                     *)

month_key(article) ==
    LET pub_date == fromisoformat(replace_Z(article.published_at))
    IN  <<pub_date.y, pub_date.mo>>

month_index(stats, key) ==
    IF \E i \in 1..Len(stats) : stats[i].month = key
    THEN CHOOSE i \in 1..Len(stats) : stats[i].month = key
    ELSE 0

month_add(stats, article) ==
    LET key == month_key(article)
        st  == IF month_index(stats, key) = 0
               THEN Append(stats, [month |-> key, articles |-> 0, views |-> 0,
                                   reactions |-> 0, comments |-> 0])
               ELSE stats
        i   == month_index(st, key)
    IN  [st EXCEPT ![i] = [month     |-> key,
                           articles  |-> @.articles + 1,
                           views     |-> @.views + page_views(article),
                           reactions |-> @.reactions + public_reactions(article),
                           comments  |-> @.comments + comments_count(article)]]

RECURSIVE monthly_stats_loop(_, _)
monthly_stats_loop(stats, list) ==
    IF list = <<>> THEN stats
    ELSE monthly_stats_loop(month_add(stats, Head(list)), Tail(list))

MonthsShown == 12

growth_trends(h) ==
    [heap |-> h,
     report |-> LastN(sorted(monthly_stats_loop(<<>>, h[SELF]), "month", FALSE), MonthsShown)]

----------------------------------------------------------------------------
(* Underperformer detector, lines 226-245 *)

engagement_rates(list) == [i \in 1..Len(list) |-> calculate_engagement_rate(list[i])]

views_of(list) == [i \in 1..Len(list) |-> page_views(list[i])]

\* the condition of lines 239-240
is_underperformer(a, avg_views, avg_engagement) ==
    \/ float_lt(float(page_views(a)), float_half(avg_views))
    \/ float_lt(calculate_engagement_rate(a), float_half(avg_engagement))

RECURSIVE flag_loop(_, _, _)
flag_loop(list, avg_views, avg_engagement) ==
    IF list = <<>> THEN <<>>
    ELSE IF is_underperformer(Head(list), avg_views, avg_engagement)
         THEN <<Head(list)>> \o flag_loop(Tail(list), avg_views, avg_engagement)
         ELSE flag_loop(Tail(list), avg_views, avg_engagement)

underperformers(h, days, t) ==
    LET f    == filter_by_date_m(h, days, t)
        list == f.heap[f.ref]
    IN  IF list = <<>> THEN [heap |-> f.heap, report |-> [empty |-> TRUE, flagged |-> <<>>]]
        ELSE LET avg_views == int_truediv(SumSeq(views_of(list)), Len(list))
                 avg_engagement == float_div(float_sum(FZero, engagement_rates(list)),
                                             Len(list))
             IN  [heap |-> f.heap,
                  report |-> [empty |-> FALSE,
                              flagged |-> flag_loop(list, avg_views, avg_engagement)]]

----------------------------------------------------------------------------
(* Overview, lines 64-79 *)

reactions_of(list) == [i \in 1..Len(list) |-> public_reactions(list[i])]

comments_of(list) == [i \in 1..Len(list) |-> comments_count(list[i])]

overview(h, days, t) ==
    LET f    == filter_by_date_m(h, days, t)
        list == f.heap[f.ref]
    IN  IF list = <<>> THEN [heap |-> f.heap, report |-> [shown |-> FALSE]]
        ELSE [heap |-> f.heap,
              report |-> [shown           |-> TRUE,
                          total_articles  |-> Len(list),
                          total_views     |-> SumSeq(views_of(list)),
                          total_reactions |-> SumSeq(reactions_of(list)),
                          total_comments  |-> SumSeq(comments_of(list)),
                          avg_views       |-> int_truediv(SumSeq(views_of(list)), Len(list)),
                          avg_engagement  |->
                              float_div(float_sum(FZero, engagement_rates(list)), Len(list)),
                          all_time        |-> falsy(days)]]

----------------------------------------------------------------------------
(* JSON export, lines 260-273.  json.dump writes an int as its decimal     *)
(* digits; reading the file back parses the digits.                        *)

RECURSIVE json_dump_int(_)
json_dump_int(n) ==
    IF n < 10 THEN <<n>> ELSE Append(json_dump_int(n \div 10), n % 10)

RECURSIVE json_load_int(_)
json_load_int(digits) ==
    IF digits = <<>> THEN 0
    ELSE json_load_int(SubSeq(digits, 1, Len(digits) - 1)) * 10 + digits[Len(digits)]

\* a slip: the totals are taken over self.articles, not over the filtered list
export_json_unfiltered(h, days, t) ==
    LET f    == filter_by_date_m(h, days, t)
        list == f.heap[f.ref]
    IN  [heap |-> f.heap,
         report |-> [exported_at     |-> t,
                     total_articles  |-> json_dump_int(Len(h[SELF])),
                     total_views     |-> json_dump_int(SumSeq(views_of(h[SELF]))),
                     total_reactions |-> json_dump_int(SumSeq(reactions_of(h[SELF]))),
                     articles        |-> list]]

export_json(h, days, t) ==
    LET f    == filter_by_date_m(h, days, t)
        list == f.heap[f.ref]
    IN  [heap |-> f.heap,
         report |-> [exported_at     |-> t,
                     total_articles  |-> json_dump_int(Len(list)),
                     total_views     |-> json_dump_int(SumSeq(views_of(list))),
                     total_reactions |-> json_dump_int(SumSeq(reactions_of(list))),
                     articles        |-> list]]

\* json.load of the exported file: the three totals
json_load_totals(file) ==
    [total_articles  |-> json_load_int(file.total_articles),
     total_views     |-> json_load_int(file.total_views),
     total_reactions |-> json_load_int(file.total_reactions)]

----------------------------------------------------------------------------
(* CSV export, lines 277-299: one row per record, in order.  The text      *)
(* formatting of the cells is left out; the engagement cell is the float.  *)

csv_row(article) ==
    <<article.title, article.url, article.published_at, page_views(article),
      public_reactions(article),
      comments_count(article), calculate_engagement_rate(article),
      Get(article, "reading_time_minutes", 0), Get(article, "tag_list", <<>>)>>

export_csv(h, days, t) ==
    LET f    == filter_by_date_m(h, days, t)
        list == f.heap[f.ref]
    IN  [heap |-> f.heap, report |-> [i \in 1..Len(list) |-> csv_row(list[i])]]

----------------------------------------------------------------------------
(* The run of main(), lines 344-374.                                       *)
(*                                                                         *)
(* args holds what the command line gives and main() reads more than once  *)
(* (--full-report, --days).  Each selector (--overview, --top N, --sort,   *)
(* --tags, --reading-time, --growth, --underperformers, --export-json,     *)
(* --export-csv) is set once by argparse and read once by main(): it is    *)
(* drawn where main() reads it.                                            *)

\* the moment the run starts: 2024-03-01T00:00Z
Now0 == Instant(fromisoformat(Stamp(2024, 3, 1, 0, "+00:00")))

\* how many hours the clock may advance during a run
MaxTicks == 1

\* longest response of the Source API in a run of main()
MaxStore == 2

\* the status codes the Source API may answer with
StatusCodes == {200, 401, 500}

\* --days: absent, or an int
DaysChoices == {None, Some(0), Some(1), Some(30)}

\* --top N with a truthy N; without --top, or with --top 0, main() skips the call
TopChoices == {-1, 1, 2, 10}

SortChoices == {"views", "reactions", "comments", "engagement"}

\* 2024-02-29T00:00Z, one day before Now0
MainA == Article("a", Stamp(2024, 2, 29, 0, "Z"), 12, 1, 0, 2, <<"x">>)

\* 2024-01-10T05:00+05:00
MainB == Article("b", Stamp(2024, 1, 10, 5, "+05:00"), 3, 5, 2, 1000, <<"y", "x">>)

\* an old record that lacks the optional fields
MainC == Bare("c", Stamp(2022, 12, 31, 23, "Z"))

MainArticles == {MainA, MainB, MainC}

Responses == SeqsUpTo(MainArticles, MaxStore)

\* nothing reported, printed or written yet
NoReport == [op |-> "none"]

NoOverview == [called |-> FALSE]

NoFile == [written |-> FALSE]

Init ==
    /\ pc = "start"
    /\ args \in [full_report : BOOLEAN, days : DaysChoices]
    /\ status = 0
    /\ response = <<>>
    /\ articles = <<>>
    /\ fetches = 0
    /\ exitcode = -1
    /\ now = Now0
    /\ calls = 0
    /\ out = NoReport
    /\ ov = NoOverview
    /\ jsonfile = NoFile

\* the order in which main() reads the selectors
Steps == <<"overview", "top", "tags", "reading_time", "growth", "underperformers",
           "export_json", "export_csv", "end">>

StepAfter(p) == Steps[(CHOOSE i \in 1..Len(Steps) : Steps[i] = p) + 1]

\* a slip: the error is printed but the process does not exit
fetch_articles_no_exit(st, body) ==
    IF st = 200
    THEN [articles |-> body, exitcode |-> -1, pc |-> "overview"]
    ELSE [articles |-> <<>>, exitcode |-> -1, pc |-> "overview"]

\* fetch_articles, lines 22-35, on a response with status st and JSON body
fetch_articles(st, body) ==
    IF st = 200
    THEN [articles |-> body, exitcode |-> -1, pc |-> "overview"]
    ELSE [articles |-> <<>>, exitcode |-> 1, pc |-> "exited"]

FetchArticles ==
    /\ pc = "start"
    /\ \E st \in StatusCodes, body \in Responses :
         LET r == fetch_articles(st, body)
         IN  /\ status' = st
             /\ response' = IF st = 200 THEN body ELSE <<>>
             /\ articles' = r.articles
             /\ exitcode' = r.exitcode
             /\ pc' = r.pc
    /\ fetches' = fetches + 1
    /\ UNCHANGED <<args, now, calls, out, ov, jsonfile>>

\* the bookkeeping of a method call whose result is r
Called(op, r) ==
    /\ articles' = r.heap[SELF]
    /\ out' = [op |-> op, report |-> r.report]
    /\ calls' = calls + 1
    /\ pc' = StepAfter(pc)
    /\ UNCHANGED <<args, status, response, fetches, exitcode, now>>

Overview ==
    /\ pc = "overview"
    /\ LET r == overview(Heap(articles), args.days, now)
       IN  /\ Called("overview", r)
           /\ ov' = [called |-> TRUE, at |-> now, report |-> r.report]
    /\ UNCHANGED jsonfile

TopArticles ==
    /\ pc = "top"
    /\ \E n \in TopChoices, sort \in SortChoices :
         Called("top_articles",
                top_articles(Heap(articles), IF args.full_report THEN 10 ELSE n,
                             sort, args.days, now))
    /\ UNCHANGED <<ov, jsonfile>>

TagAnalysis ==
    /\ pc = "tags"
    /\ Called("tag_analysis", tag_analysis(Heap(articles), args.days, now))
    /\ UNCHANGED <<ov, jsonfile>>

ReadingTimeAnalysis ==
    /\ pc = "reading_time"
    /\ Called("reading_time_analysis", reading_time_analysis(Heap(articles), args.days, now))
    /\ UNCHANGED <<ov, jsonfile>>

GrowthTrends ==
    /\ pc = "growth"
    /\ Called("growth_trends", growth_trends(Heap(articles)))
    /\ UNCHANGED <<ov, jsonfile>>

\* args.days or 30
days_or_30(days) == IF falsy(days) THEN Some(30) ELSE days

Underperformers ==
    /\ pc = "underperformers"
    /\ Called("underperformers", underperformers(Heap(articles), days_or_30(args.days), now))
    /\ UNCHANGED <<ov, jsonfile>>

ExportJson ==
    /\ pc = "export_json"
    /\ LET r == export_json(Heap(articles), args.days, now)
       IN  /\ Called("export_json", r)
           /\ jsonfile' = [written |-> TRUE, text |-> r.report]
    /\ UNCHANGED ov

ExportCsv ==
    /\ pc = "export_csv"
    /\ Called("export_csv", export_csv(Heap(articles), args.days, now))
    /\ UNCHANGED <<ov, jsonfile>>

\* a selector that is absent from the command line: main() goes on to the next
\* one; --full-report runs the six reports whatever the selectors are
Skip ==
    /\ pc \in {"overview", "top", "tags", "reading_time", "growth", "underperformers",
               "export_json", "export_csv"}
    /\ args.full_report => pc \in {"export_json", "export_csv"}
    /\ pc' = StepAfter(pc)
    /\ UNCHANGED <<args, status, response, articles, fetches, exitcode, now, calls, out,
                   ov, jsonfile>>

\* main() returns
Return ==
    /\ pc = "end"
    /\ pc' = "done"
    /\ exitcode' = 0
    /\ UNCHANGED <<args, status, response, articles, fetches, now, calls, out, ov, jsonfile>>

\* the wall clock advances while the process runs
Tick ==
    /\ pc \notin {"done", "exited"}
    /\ now < Now0 + MaxTicks
    /\ now' = now + 1
    /\ UNCHANGED <<pc, args, status, response, articles, fetches, exitcode, calls, out, ov,
                   jsonfile>>

Next ==
    \/ FetchArticles
    \/ Overview
    \/ TopArticles
    \/ TagAnalysis
    \/ ReadingTimeAnalysis
    \/ GrowthTrends
    \/ Underperformers
    \/ ExportJson
    \/ ExportCsv
    \/ Skip
    \/ Return
    \/ Tick

Spec == Init /\ [][Next]_vars

----------------------------------------------------------------------------
(* Specifications that call one method on a store drawn from a bounded     *)
(* set, for the claims about that method alone.  The store is what a       *)
(* successful fetch left in self.articles.                                 *)

Fetched(p, stores, argset, times) ==
    /\ pc = p
    /\ args \in argset
    /\ status = 200
    /\ articles \in stores
    /\ response = articles
    /\ fetches = 1
    /\ exitcode = -1
    /\ now \in times
    /\ calls = 0
    /\ out = NoReport
    /\ ov = NoOverview
    /\ jsonfile = NoFile

Returned(op, r) ==
    /\ articles' = r.heap[SELF]
    /\ out' = [op |-> op, report |-> r.report]
    /\ calls' = calls + 1
    /\ pc' = "returned"
    /\ UNCHANGED <<args, status, response, fetches, exitcode, now, ov, jsonfile>>

----------------------------------------------------------------------------
(* filter_by_date alone *)

\* longest store the date filter is called on
MaxFilterLen == 3

\* 2024-02-29T00:00Z: exactly one day before Now0
FilterA == Article("a", Stamp(2024, 2, 29, 0, "Z"), 1, 0, 0, 1, <<>>)

\* 2024-02-28T23:00Z: 25 hours before Now0
FilterB == Article("b", Stamp(2024, 2, 28, 23, "Z"), 1, 0, 0, 1, <<>>)

\* 2024-02-29T04:00+05:00, which is 2024-02-28T23:00Z
FilterC == Article("c", Stamp(2024, 2, 29, 4, "+05:00"), 1, 0, 0, 1, <<>>)

\* 2024-02-28T17:00-08:00, which is 2024-02-29T01:00Z
FilterD == Article("d", Stamp(2024, 2, 28, 17, "-08:00"), 1, 0, 0, 1, <<>>)

\* 2024-03-02T00:00+00:00: one day after Now0
FilterE == Article("e", Stamp(2024, 3, 2, 0, "+00:00"), 1, 0, 0, 1, <<>>)

FilterArticles == {FilterA, FilterB, FilterC, FilterD, FilterE}

FilterDays == {None, Some(0), Some(1), Some(2), Some(-1)}

InitFilter ==
    Fetched("call", SeqsUpTo(FilterArticles, MaxFilterLen), [days : FilterDays],
            {Now0, Now0 + 1})

CallFilterByDate ==
    /\ pc = "call"
    /\ LET f == filter_by_date_m(Heap(articles), args.days, now)
       IN  Returned("filter_by_date", [heap |-> f.heap, report |-> f.heap[f.ref]])

NextFilter == CallFilterByDate

SpecFilter == InitFilter /\ [][NextFilter]_vars

\* the UTC instant of each record of FilterArticles, in hours from Now0
\* (worked out by hand from the timestamps above)
HoursFromNow0(title) ==
    CASE title = "a" -> -24
      [] title = "b" -> -25
      [] title = "c" -> -25
      [] title = "d" -> -23
      [] title = "e" -> 24

InWindowByHand(a) == Now0 + HoursFromNow0(a.title) >= now - 24 * Value(args.days)

\* C1: filter_by_date with a window of D days returns exactly the records
\* published at or after (now - D days), in their original order; with no
\* window (None or 0) it returns the full store in its original order.
C1_FilterExact ==
    (pc = "returned" /\ out.op = "filter_by_date") =>
        out.report = IF args.days = None \/ args.days = Some(0) THEN articles
                     ELSE SelectSeq(articles, InWindowByHand)

\* a window of one day, asked at Now0, keeps the record whose wall clock is
\* before the cutoff but whose instant is after it and the record published
\* exactly at the cutoff, and drops the one whose wall clock is after the
\* cutoff but whose instant is an hour before it
C1_Witness ==
    /\ pc = "returned" /\ out.op = "filter_by_date"
    /\ args.days = Some(1) /\ now = Now0
    /\ articles = <<FilterD, FilterC, FilterA>>
    /\ out.report = <<FilterD, FilterA>>

----------------------------------------------------------------------------
(* top_articles alone *)

\* longest store top_articles is called on
MaxTopLen == 3

\* a and b tie on views and reactions; d and e tie on the engagement rate
\* (1/3 and 2/6 of 100); c has no views, f lacks the counters
TopA == Article("a", Stamp(2024, 2, 1, 0, "Z"), 10, 2, 1, 1, <<>>)

TopB == Article("b", Stamp(2024, 2, 2, 0, "Z"), 10, 2, 0, 1, <<>>)

TopC == Article("c", Stamp(2024, 2, 3, 0, "Z"), 0, 3, 1, 1, <<>>)

TopD == Article("d", Stamp(2024, 2, 4, 0, "Z"), 3, 1, 0, 1, <<>>)

TopE == Article("e", Stamp(2024, 2, 5, 0, "Z"), 6, 1, 1, 1, <<>>)

TopF == Bare("f", Stamp(2024, 2, 6, 0, "Z"))

TopArticleSet == {TopA, TopB, TopC, TopD, TopE, TopF}

TopN == {-4, -1, 0, 1, 2, 3, 10}

InitTop ==
    Fetched("call", SeqsUpTo(TopArticleSet, MaxTopLen),
            [days : {None}, n : TopN, sort : SortChoices], {Now0})

CallTopArticles ==
    /\ pc = "call"
    /\ Returned("top_articles",
                top_articles(Heap(articles), args.n, args.sort, args.days, now))

NextTop == CallTopArticles

SpecTop == InitTop /\ [][NextTop]_vars

\* the key of record a under --sort by, as an exact fraction <<numerator, denominator>>
ExactKey(by, a) ==
    LET v == Get(a, "page_views_count", 0)
        r == Get(a, "public_reactions_count", 0)
        c == Get(a, "comments_count", 0)
    IN  CASE by = "views"      -> <<v, 1>>
          [] by = "reactions"  -> <<r, 1>>
          [] by = "comments"   -> <<c, 1>>
          [] by = "engagement" -> IF v = 0 THEN <<0, 1>> ELSE <<(r + c) * 100, v>>

ExactLess(p, q) == p[1] * q[2] < q[1] * p[2]

Orderings(n) == {f \in [1..n -> 1..n] : \A i, j \in 1..n : f[i] = f[j] => i = j}

\* list is the first k records of input sorted descending by key, records of
\* equal key in their input order
IsStableTop(list, input, by, k) ==
    \E f \in Orderings(Len(input)) :
        /\ \A i, j \in 1..Len(input) :
               i < j => /\ ~ExactLess(ExactKey(by, input[f[i]]), ExactKey(by, input[f[j]]))
                        /\ ~ExactLess(ExactKey(by, input[f[j]]), ExactKey(by, input[f[i]]))
                             => f[i] < f[j]
        /\ k \in 0..Len(input)
        /\ list = [i \in 1..k |-> input[f[i]]]

TopReturned == pc = "returned" /\ out.op = "top_articles"

\* C2 as stated: for every integer n the ranked list has length
\* min(n, input length), is sorted descending by the chosen key and keeps
\* records of equal key in their input order.
C2_Original ==
    TopReturned =>
        /\ Len(out.report) = Min(args.n, Len(articles))
        /\ IsStableTop(out.report, articles, args.sort, Len(out.report))

\* C2 amended: the ranked list is the first k records of the input sorted
\* descending by the chosen key, records of equal key in their input order,
\* where k = min(n, input length) for n >= 0 and k = max(input length + n, 0)
\* for n < 0 (the slice [:n] then drops the last -n records).
C2_TopN ==
    TopReturned =>
        IsStableTop(out.report, articles, args.sort,
                    IF args.n >= 0 THEN Min(args.n, Len(articles))
                    ELSE Max(Len(articles) + args.n, 0))

\* ranked by engagement with n = 2: d before e (equal rates, input order),
\* c (no views, rate 0) is cut off
C2_Witness ==
    /\ TopReturned
    /\ args.sort = "engagement" /\ args.n = 2
    /\ articles = <<TopC, TopD, TopE>>
    /\ out.report = <<TopD, TopE>>

\* n = -1 on three records: two are listed
C2_WitnessNegative ==
    /\ TopReturned
    /\ args.n = -1 /\ Len(articles) = 3 /\ Len(out.report) = 2

----------------------------------------------------------------------------
(* reading_time_analysis alone *)

\* longest store reading_time_analysis is called on
MaxReadingLen == 2

\* the reading times at the edges of the five ranges, and one past the last
ReadingTimes == {0, 3, 4, 5, 6, 10, 11, 15, 16, 999, 1000}

ReadingArticles ==
    {Article("r", Stamp(2024, 2, 1, 0, "Z"), 5, 1, 0, rt, <<>>) : rt \in ReadingTimes}
        \cup {Bare("s", Stamp(2024, 2, 2, 0, "Z"))}

InitReading ==
    Fetched("call", SeqsUpTo(ReadingArticles, MaxReadingLen), [days : {None}], {Now0})

CallReadingTimeAnalysis ==
    /\ pc = "call"
    /\ Returned("reading_time_analysis",
                reading_time_analysis(Heap(articles), args.days, now))

NextReading == CallReadingTimeAnalysis

SpecReading == InitReading /\ [][NextReading]_vars

\* how many times x occurs in list
Count(list, x) == Cardinality({i \in 1..Len(list) : list[i] = x})

RECURSIVE Concat(_)
Concat(lists) == IF lists = <<>> THEN <<>> ELSE Head(lists) \o Concat(Tail(lists))

\* C3: the five buckets partition the input exactly: every input record is
\* in exactly one bucket, and the buckets hold nothing else.
C3_Partition ==
    (pc = "returned" /\ out.op = "reading_time_analysis") =>
        /\ Len(out.report) = 5
        /\ Len(Concat(out.report)) = Len(articles)
        /\ \A i \in 1..Len(articles) :
               Count(Concat(out.report), articles[i]) = Count(articles, articles[i])

----------------------------------------------------------------------------
(* underperformers alone *)

\* longest store underperformers is called on
MaxUnderLen == 4

\* views and reactions of the records: 100, 100, 100, 10 views without
\* engagement is the example of the specification; rates of 0, 1/3 and 5/3
\* average to twice the rate 1/3
UnderA == Article("a", Stamp(2024, 2, 20, 0, "Z"), 100, 0, 0, 1, <<>>)

UnderB == Article("b", Stamp(2024, 2, 21, 0, "Z"), 10, 0, 0, 1, <<>>)

UnderC == Article("c", Stamp(2024, 2, 22, 0, "Z"), 0, 0, 0, 1, <<>>)

UnderD == Article("d", Stamp(2024, 2, 23, 0, "Z"), 3, 1, 0, 1, <<>>)

UnderE == Article("e", Stamp(2024, 2, 24, 0, "Z"), 3, 4, 1, 1, <<>>)

UnderArticles == {UnderA, UnderB, UnderC, UnderD, UnderE}

InitUnder ==
    Fetched("call", SeqsUpTo(UnderArticles, MaxUnderLen), [days : {None, Some(30)}], {Now0})

CallUnderperformers ==
    /\ pc = "call"
    /\ Returned("underperformers", underperformers(Heap(articles), args.days, now))

NextUnder == CallUnderperformers

SpecUnder == InitUnder /\ [][NextUnder]_vars

\* exact arithmetic on the counts.  The engagement rate of a is
\* RateNum(a) / RateDen(a) percent; Scaled(a, list) is that rate times the
\* product of all the denominators of list, an integer.
RateNum(a) ==
    IF page_views(a) = 0 THEN 0 ELSE (public_reactions(a) + comments_count(a)) * 100

RateDen(a) == IF page_views(a) = 0 THEN 1 ELSE page_views(a)

RECURSIVE DenProduct(_)
DenProduct(list) == IF list = <<>> THEN 1 ELSE RateDen(Head(list)) * DenProduct(Tail(list))

Scaled(a, list) == RateNum(a) * (DenProduct(list) \div RateDen(a))

\* views(a) < 0.5 * mean views of list, or rate(a) < 0.5 * mean rate of list
BelowHalfMean(a, list) ==
    \/ 2 * Len(list) * page_views(a) < SumSeq(views_of(list))
    \/ 2 * Len(list) * Scaled(a, list)
           < SumSeq([i \in 1..Len(list) |-> Scaled(list[i], list)])

UnderInput == filter_by_date(articles, args.days, now)

BelowHalfMeanOfInput(a) == BelowHalfMean(a, UnderInput)

\* C4: a record is flagged if and only if its views are below half the mean
\* views or its engagement rate is below half the mean engagement rate of
\* the filtered sequence; the flagged records keep the input order.
C4_FlaggedIff ==
    (pc = "returned" /\ out.op = "underperformers") =>
        out.report.flagged = SelectSeq(UnderInput, BelowHalfMeanOfInput)

\* the example of the specification: views 100, 100, 100, 10 and no
\* engagement; only the record with 10 views is flagged
C4_Example ==
    /\ pc = "returned" /\ out.op = "underperformers"
    /\ articles = <<UnderA, UnderA, UnderA, UnderB>>
    /\ out.report.flagged = <<UnderB>>

----------------------------------------------------------------------------
(* tag_analysis alone *)

\* longest store tag_analysis is called on
MaxTagLen == 3

\* one tag; two tags; no tag; one tag written twice; no tag_list at all;
\* two tags and no views
TagA == Article("a", Stamp(2024, 2, 1, 0, "Z"), 5, 1, 0, 1, <<"x">>)

TagB == Article("b", Stamp(2024, 2, 2, 0, "Z"), 7, 2, 1, 1, <<"x", "y">>)

TagC == Article("c", Stamp(2024, 2, 3, 0, "Z"), 4, 1, 1, 1, <<>>)

TagD == Article("d", Stamp(2024, 2, 4, 0, "Z"), 3, 1, 2, 1, <<"y", "y">>)

TagE == Without(Article("e", Stamp(2024, 2, 5, 0, "Z"), 2, 0, 0, 1, <<>>), "tag_list")

TagF == Article("f", Stamp(2024, 2, 6, 0, "Z"), 0, 3, 0, 1, <<"z", "x">>)

TagArticles == {TagA, TagB, TagC, TagD, TagE, TagF}

InitTags ==
    Fetched("call", SeqsUpTo(TagArticles, MaxTagLen), [days : {None}], {Now0})

CallTagAnalysis ==
    /\ pc = "call"
    /\ Returned("tag_analysis", tag_analysis(Heap(articles), args.days, now))

NextTags == CallTagAnalysis

SpecTags == InitTags /\ [][NextTags]_vars

TagsReturned == pc = "returned" /\ out.op = "tag_analysis"

TagList(a) == Get(a, "tag_list", <<>>)

TagsOf(a) == {TagList(a)[i] : i \in 1..Len(TagList(a))}

\* the records of list that bear tag, in order
Bearing(list, tag) == SelectSeq(list, LAMBDA a : tag \in TagsOf(a))

\* C5: for each distinct tag of the input there is one entry, whose count is
\* the number of records bearing the tag and whose totals are the sums of
\* views, reactions and comments over exactly those records; the entries are
\* in descending order of total views.
C5_TagTotals ==
    TagsReturned =>
        /\ {out.report[i].tag : i \in 1..Len(out.report)}
               = UNION {TagsOf(articles[k]) : k \in 1..Len(articles)}
        /\ \A i, j \in 1..Len(out.report) :
               /\ out.report[i].tag = out.report[j].tag => i = j
               /\ i < j => out.report[i].views >= out.report[j].views
        /\ \A i \in 1..Len(out.report) :
               LET on == Bearing(articles, out.report[i].tag)
               IN  /\ out.report[i].count = Len(on)
                   /\ out.report[i].views = SumSeq(views_of(on))
                   /\ out.report[i].reactions = SumSeq(reactions_of(on))
                   /\ out.report[i].comments = SumSeq(comments_of(on))

SumTagViews == SumSeq([i \in 1..Len(out.report) |-> out.report[i].views])

TotalViews == SumSeq(views_of(articles))

\* C6 as stated: the per-tag view totals add up to at least the total views
\* of the sequence, and to exactly that only when every record has one tag.
C6_Original ==
    TagsReturned =>
        /\ SumTagViews >= TotalViews
        /\ SumTagViews = TotalViews =>
               \A k \in 1..Len(articles) : Len(TagList(articles[k])) = 1

\* C6 amended: the per-tag view totals add up to the sum, over the records,
\* of views times the length of the record's tag_list.  So they add up to at
\* least the total views when every record has at least one tag, and to
\* exactly the total views when every record has exactly one tag.
C6_TagViewSum ==
    TagsReturned =>
        /\ SumTagViews = SumSeq([k \in 1..Len(articles) |->
                                   page_views(articles[k]) * Len(TagList(articles[k]))])
        /\ (\A k \in 1..Len(articles) : Len(TagList(articles[k])) >= 1)
               => SumTagViews >= TotalViews
        /\ (\A k \in 1..Len(articles) : Len(TagList(articles[k])) = 1)
               => SumTagViews = TotalViews

\* a record with two tags counts twice, an untagged one not at all
C6_Witness ==
    /\ TagsReturned
    /\ articles = <<TagB, TagC, TagA>>
    /\ SumTagViews = 19 /\ TotalViews = 16

----------------------------------------------------------------------------
(* growth_trends alone *)

\* the store holds one record for each of the first k months from January
\* 2023 on, 0 <= k <= MaxMonths, and up to MaxExtras further records
MaxMonths == 13

MaxExtras == 2

\* the record of the i-th month from January 2023 on, with i views
MonthArticle(i) ==
    Article("m", Stamp(2023 + (i - 1) \div 12, ((i - 1) % 12) + 1, 10, 12, "Z"),
            i, 1, 2, 1, <<>>)

\* a second record in March 2023
ExtraA == Article("xa", Stamp(2023, 3, 15, 0, "Z"), 50, 4, 1, 1, <<>>)

\* 2024-01-31T23:00-08:00: January by its own clock, February in UTC
ExtraB == Article("xb", Stamp(2024, 1, 31, 23, "-08:00"), 20, 0, 0, 1, <<>>)

\* the last hour of 2022
ExtraC == Article("xc", Stamp(2022, 12, 31, 23, "Z"), 30, 2, 0, 1, <<>>)

\* February 2024, without counters
ExtraD == Bare("xd", Stamp(2024, 2, 10, 0, "+00:00"))

Extras == {ExtraA, ExtraB, ExtraC, ExtraD}

NewestFirst(k) == [i \in 1..k |-> MonthArticle(k + 1 - i)]

OldestFirst(k) == [i \in 1..k |-> MonthArticle(i)]

GrowthStores ==
    {x \o m : x \in SeqsUpTo(Extras, MaxExtras),
              m \in UNION {{NewestFirst(k), OldestFirst(k)} : k \in 0..MaxMonths}}

InitGrowth == Fetched("call", GrowthStores, [days : {None, Some(1)}], {Now0})

CallGrowthTrends ==
    /\ pc = "call"
    /\ Returned("growth_trends", growth_trends(Heap(articles)))

NextGrowth == CallGrowthTrends

SpecGrowth == InitGrowth /\ [][NextGrowth]_vars

GrowthReturned == pc = "returned" /\ out.op = "growth_trends"

\* the year and month written in published_at
WrittenMonth(a) == <<a.published_at.y, a.published_at.mo>>

MonthBefore(p, q) == p[1] < q[1] \/ (p[1] = q[1] /\ p[2] < q[2])

MonthsOfStore == {WrittenMonth(articles[k]) : k \in 1..Len(articles)}

InMonth(list, m) == SelectSeq(list, LAMBDA a : WrittenMonth(a) = m)

\* C7: growth_trends groups the full store by month whatever window was
\* supplied; it reports min(12, number of months with records) entries, the
\* most recent months, in ascending order, each with the count and the
\* totals of all the records of the store in that month.
C7_Growth ==
    GrowthReturned =>
        LET shown == {out.report[i].month : i \in 1..Len(out.report)}
        IN  /\ Len(out.report) = Min(12, Cardinality(MonthsOfStore))
            /\ shown \subseteq MonthsOfStore
            /\ \A i, j \in 1..Len(out.report) :
                   i < j => MonthBefore(out.report[i].month, out.report[j].month)
            /\ \A m \in MonthsOfStore \ shown : \A n \in shown : MonthBefore(m, n)
            /\ \A i \in 1..Len(out.report) :
                   LET of == InMonth(articles, out.report[i].month)
                   IN  /\ out.report[i].articles = Len(of)
                       /\ out.report[i].views = SumSeq(views_of(of))
                       /\ out.report[i].reactions = SumSeq(reactions_of(of))
                       /\ out.report[i].comments = SumSeq(comments_of(of))

\* fourteen months have records, a window of one day was supplied, and the
\* twelve months from March 2023 to February 2024 are reported, March 2023
\* with two records
C7_Witness ==
    /\ GrowthReturned
    /\ args.days = Some(1)
    /\ Cardinality(MonthsOfStore) = 14
    /\ Len(out.report) = 12
    /\ out.report[1].month = <<2023, 3>> /\ out.report[1].articles = 2
    /\ out.report[12].month = <<2024, 2>>

----------------------------------------------------------------------------
(* Properties of a whole run of main(), specification Spec *)

BothReported == ov.called /\ ov.report.shown /\ jsonfile.written

ExportTotals == json_load_totals(jsonfile.text)

SameTotals ==
    /\ ExportTotals.total_articles = ov.report.total_articles
    /\ ExportTotals.total_views = ov.report.total_views
    /\ ExportTotals.total_reactions = ov.report.total_reactions

\* C8 as stated: in one run with a given window, the totals read back from
\* the JSON export equal the totals the overview printed.
C8_Original == BothReported => SameTotals

\* C8 amended: the totals read back from the JSON export equal the totals
\* the overview printed whenever filter_by_date selects the same records at
\* the time of the overview and at the time of the export, which is always
\* so without a window; with a window, a record that leaves the window
\* between the two calls is missing from the export, whose totals are then
\* the lower ones.
C8_RoundTrip ==
    BothReported =>
        /\ filter_by_date(articles, args.days, ov.at)
               = filter_by_date(articles, args.days, jsonfile.text.exported_at)
             => SameTotals
        /\ falsy(args.days) => SameTotals
        /\ ExportTotals.total_articles <= ov.report.total_articles
        /\ ExportTotals.total_views <= ov.report.total_views
        /\ ExportTotals.total_reactions <= ov.report.total_reactions

\* a window of 30 days: the overview and the export, an hour later, both
\* count the one record inside the window (12 views) and not the one outside
C8_Witness ==
    /\ BothReported
    /\ args.days = Some(30)
    /\ articles = <<MainA, MainB>>
    /\ ov.at < jsonfile.text.exported_at
    /\ ov.report.total_views = 12
    /\ ExportTotals = [total_articles |-> 1, total_views |-> 12, total_reactions |-> 1]

\* C9: one fetch is made, before anything else; no aggregator or export runs
\* before it has succeeded; on a response other than 200 the run ends at
\* once with exit code 1, nothing having run and nothing left to run.
C9_FetchFirst ==
    /\ fetches <= 1
    /\ pc # "start" => fetches = 1
    /\ (calls > 0 \/ out # NoReport \/ ov.called \/ jsonfile.written)
           => fetches = 1 /\ status = 200
    /\ (fetches = 1 /\ status # 200)
           => /\ pc = "exited" /\ exitcode = 1
              /\ calls = 0 /\ out = NoReport /\ ~ov.called /\ ~jsonfile.written
              /\ ~ENABLED Next

\* the Source API answered 401: the run is over with exit code 1
C9_Witness ==
    /\ status = 401 /\ fetches = 1
    /\ pc = "exited" /\ exitcode = 1 /\ calls = 0

\* C10: once the fetch has filled the store, no method changes it: the
\* records, their fields and their order stay what the response held.
C10_StoreUnchanged == status = 200 => articles = response

\* a full run without a window: all eight methods were called on a store
\* that is not in descending order of views, and the store is as fetched
C10_Witness ==
    /\ pc = "done" /\ calls = 8
    /\ args.days = None
    /\ response = <<MainC, MainA>>
    /\ articles = <<MainC, MainA>>

====
